---- MODULE Spec2Model ----
(***************************************************************************)
(* Batch scorer of the readmit30 course leaderboard                        *)
(* (Project-1/readmit30/faculty/batch_score_submissions.py).               *)
(*                                                                         *)
(* State: the submissions CSV, the parsed command line, the loaded         *)
(* Submission list, the position of main() in its per-submission loop, the *)
(* record being built, the team working directories on disk and the        *)
(* persisted leaderboard CSV (as text cells).  The external collaborators  *)
(* (git, pip, nbconvert, the scorer) are fixed by the repository URL of a  *)
(* submission: Repo(url) says what each of them does for that repository.  *)
(***************************************************************************)
EXTENDS Integers, Sequences, FiniteSets, TLC

(* ------------------------------ bounds -------------------------------- *)
\* longest submissions CSV explored (rows)
MaxSubs == 2
\* length of a short failure message
ShortLen == 4

(* ------------------------- program constants -------------------------- *)
DEFAULT_NB == "Project-1/readmit30/notebooks/submission.ipynb"
\* record["notes"] = str(e)[:300]
NotesMax == 300
LongLen == NotesMax + 1

(* --------------------------- python values ---------------------------- *)
\* A cell of a DataFrame / a value of the record dict: str, int, float or NaN.
PyStr(s) == [t |-> "str", s |-> s, v |-> 0]
PyInt(v) == [t |-> "int", s |-> "", v |-> v]
PyFloat(v) == [t |-> "float", s |-> "", v |-> v]
PyNaN == [t |-> "nan", s |-> "", v |-> 0]

IsNumber(x) == x.t \in {"int", "float"}

(* ------------------------------ CSV text ------------------------------ *)
\* pandas.read_csv default NA markers (the ones of the text universe).
NaValues == {"", "NA", "N/A", "NaN", "nan", "null", "NULL", "n/a", "#N/A", "<NA>"}

\* Integer and float literals of the text universe, with the number they denote.
IntLit == ("0" :> 0) @@ ("1" :> 1) @@ ("5" :> 5) @@ ("7" :> 7) @@ ("007" :> 7)
FloatLit == ("0.0" :> 0) @@ ("1.0" :> 1) @@ ("5.0" :> 5) @@ ("7.0" :> 7)

\* How to_csv prints a number.
IntText == (0 :> "0") @@ (1 :> "1") @@ (5 :> "5") @@ (7 :> "7")
FloatText == (0 :> "0.0") @@ (1 :> "1.0") @@ (5 :> "5.0") @@ (7 :> "7.0")

IsNA(s) == s \in NaValues
IsIntText(s) == s \in DOMAIN IntLit
IsFloatText(s) == s \in DOMAIN FloatLit
IsNumText(s) == IsIntText(s) \/ IsFloatText(s)
NumOf(s) == IF IsIntText(s) THEN IntLit[s] ELSE FloatLit[s]

\* DataFrame.to_csv of one cell: strings verbatim, numbers by repr, NaN as the
\* empty field (na_rep = "").
FormatCell(x) ==
    CASE x.t = "str" -> x.s
      [] x.t = "int" -> IntText[x.v]
      [] x.t = "float" -> FloatText[x.v]
      [] OTHER -> ""

\* pandas.read_csv of one column: the dtype is inferred from the whole column.
\* All cells integer literals: int64.  All cells numeric or NA: float64.
\* Otherwise object: NA markers become NaN, every other cell stays a string.
ReadCol(col) ==
    LET n == Len(col)
        allInt == \A i \in 1..n : IsIntText(col[i])
        allNum == \A i \in 1..n : IsNA(col[i]) \/ IsNumText(col[i])
    IN [i \in 1..n |->
          IF allInt THEN PyInt(IntLit[col[i]])
          ELSE IF IsNA(col[i]) THEN PyNaN
          ELSE IF allNum THEN PyFloat(NumOf(col[i]))
          ELSE PyStr(col[i])]

\* to_numeric with zero for what cannot be parsed.
CoerceZeroCell(x) ==
    IF IsNumber(x) THEN x
    ELSE IF x.t = "str" /\ IsIntText(x.s) THEN PyInt(IntLit[x.s])
    ELSE IF x.t = "str" /\ IsFloatText(x.s) THEN PyFloat(FloatLit[x.s])
    ELSE PyFloat(0)

\* pandas.to_numeric(errors="coerce") of one cell: numbers stay, numeric text
\* is parsed, everything else (the empty string included) becomes NaN.
ToNumericCell(x) ==
    IF IsNumber(x) THEN x
    ELSE IF x.t = "str" /\ IsIntText(x.s) THEN PyInt(IntLit[x.s])
    ELSE IF x.t = "str" /\ IsFloatText(x.s) THEN PyFloat(FloatLit[x.s])
    ELSE PyNaN

\* pandas.to_numeric of a column: one dtype for the column, float64 as soon
\* as a cell is a float or NaN.
ToNumericCol(col) ==
    LET c == [i \in 1..Len(col) |-> ToNumericCell(col[i])]
        anyFloat == \E i \in 1..Len(col) : c[i].t \in {"float", "nan"}
    IN [i \in 1..Len(col) |->
          IF anyFloat /\ c[i].t = "int" THEN PyFloat(c[i].v) ELSE c[i]]

\* Series != str, elementwise: a number or NaN never equals a string.
SeriesNe(cell, s) == ~(cell.t = "str" /\ cell.s = s)

(* ------------------------------- paths -------------------------------- *)
\* pathlib.Path: absolute or relative, and its components.
Path(abs, parts) == [abs |-> abs, parts |-> parts]
EmptyArg == Path(FALSE, <<>>)
Cwd == Path(TRUE, <<"home", "faculty">>)

\* Path / str: an empty component adds nothing.
Join(p, s) == IF s = "" THEN p ELSE Path(p.abs, Append(p.parts, s))

\* Path.resolve(): an absolute path stays, a relative one is taken from the
\* current directory.
Resolve(p) == IF p.abs THEN p ELSE Path(TRUE, Cwd.parts \o p.parts)

IsPrefix(p, q) ==
    /\ p.abs = q.abs
    /\ Len(p.parts) <= Len(q.parts)
    /\ SubSeq(q.parts, 1, Len(p.parts)) = p.parts

\* str.replace(" ", "_") on the team names of the universe.
ReplaceSpaces(s) == IF s = "Team A" THEN "Team_A" ELSE s

\* str.strip() on the raw cells of the universe.
Strip(s) ==
    CASE s = " " -> ""
      [] s = " TeamB " -> "TeamB"
      [] OTHER -> s

(* ----------------------- external collaborators ----------------------- *)
\* What git, pip, nbconvert and the produced predictions do for a repository.
\*   clone, checkout : the git command exits with status 0
\*   reqs            : "none" no requirements.txt, "ok" / "fail" pip's outcome
\*   nbFiles         : the notebooks present in the checkout
\*   run             : "ok" / "fail", the extractor and nbconvert
\*   cells           : the seconds each cell of the notebook takes to execute
\*   long            : the failure message is longer than NotesMax
\*   preds           : "ok" / "bad", the predictions file handed to the scorer
\*   keys            : the keys of the scorer's result
AllKeys == {"auroc", "auprc", "brier", "n"}

GoodRepo ==
    [clone |-> TRUE, checkout |-> TRUE, reqs |-> "ok", nbFiles |-> {DEFAULT_NB},
     run |-> "ok", cells |-> <<1>>, long |-> FALSE, preds |-> "ok", keys |-> AllKeys,
     auroc |-> 1, auprc |-> 1, brier |-> 0, n |-> 5]

Repo(url) ==
    CASE url = "ok-hi" -> GoodRepo
      [] url = "ok-tie" -> [GoodRepo EXCEPT !.brier = 1]
      [] url = "ok-mid" -> [GoodRepo EXCEPT !.auprc = 0]
      [] url = "ok-lo" -> [GoodRepo EXCEPT !.auroc = 0, !.auprc = 0, !.brier = 1,
                                           !.reqs = "none"]
      [] url = "ok-custom" -> [GoodRepo EXCEPT !.nbFiles = {"nb/custom.ipynb"}]
      [] url = "no-ref" -> [GoodRepo EXCEPT !.checkout = FALSE]
      [] url = "bad-reqs" -> [GoodRepo EXCEPT !.reqs = "fail"]
      [] url = "no-nb" -> [GoodRepo EXCEPT !.nbFiles = {}]
      [] url = "nb-fails" -> [GoodRepo EXCEPT !.run = "fail"]
      [] url = "nb-slow" -> [GoodRepo EXCEPT !.cells = <<2, 2>>]
      [] url = "nb-hangs" -> [GoodRepo EXCEPT !.cells = <<1, 9>>]
      [] url = "nb-long" -> [GoodRepo EXCEPT !.run = "fail", !.long = TRUE]
      [] url = "bad-preds" -> [GoodRepo EXCEPT !.preds = "bad"]
      [] url = "short-scores" -> [GoodRepo EXCEPT !.keys = {"auroc", "auprc", "brier"}]
      [] OTHER -> [GoodRepo EXCEPT !.clone = FALSE]

\* str(e) of the exception a failing stage raises: a text that depends on the
\* stage, as a sequence of character codes.
Message(kind, len) == [i \in 1..len |-> (i + kind) % 10]

\* The exceptions of the pipeline: CalledProcessError of git clone, of git
\* fetch/checkout, of pip, FileNotFoundError of execute_notebook,
\* CalledProcessError of the extractor or nbconvert, the scorer's error and the
\* KeyError of a result without one of the four keys.
ExcCode ==
    ("CLONE" :> 1) @@ ("CHECKOUT" :> 2) @@ ("INSTALL_DEPS" :> 3)
    @@ ("NOTEBOOK" :> 4) @@ ("EXECUTE" :> 5) @@ ("SCORE" :> 6) @@ ("KEY" :> 7)

\* score_predictions(labels, predictions): the scorer's result, or its failure.
score_predictions(labels_ok, repo) ==
    IF labels_ok /\ repo.preds = "ok"
    THEN [ok |-> TRUE, keys |-> repo.keys,
          auroc |-> PyFloat(repo.auroc), auprc |-> PyFloat(repo.auprc),
          brier |-> PyFloat(repo.brier), n |-> PyInt(repo.n)]
    ELSE [ok |-> FALSE, keys |-> {},
          auroc |-> PyNaN, auprc |-> PyNaN, brier |-> PyNaN, n |-> PyNaN]

(* ------------------------- submission loader -------------------------- *)
\* A cell of a csv.DictReader row: a string, or None for a row that is shorter
\* than the header.
Some(s) == [some |-> TRUE, s |-> s]
None == [some |-> FALSE, s |-> ""]

Submission(team, repo_url, ref, nb_path) ==
    [team |-> team, repo_url |-> repo_url, ref |-> ref, nb_path |-> nb_path]

\* `x or DEFAULT_NB`
OrDefault(s) == IF s = "" THEN DEFAULT_NB ELSE s

\* One row of load_submissions: row["team"] raises KeyError without the
\* column, None.strip() raises AttributeError; row.get("nb_path", DEFAULT_NB)
\* gives the default only when the column is missing.
RowRaises(header, row) ==
    \/ {"team", "repo_url", "ref"} \ header # {}
    \/ ~row.team.some \/ ~row.repo_url.some \/ ~row.ref.some
    \/ ("nb_path" \in header /\ ~row.nb_path.some)

RowSubmission(header, row) ==
    Submission(Strip(row.team.s), Strip(row.repo_url.s), Strip(row.ref.s),
               IF "nb_path" \in header THEN OrDefault(Strip(row.nb_path.s))
               ELSE OrDefault(Strip(DEFAULT_NB)))

load_submissions(file) ==
    IF \E i \in 1..Len(file.rows) : RowRaises(file.header, file.rows[i])
    THEN [ok |-> FALSE, subs |-> <<>>]
    ELSE [ok |-> TRUE,
          subs |-> [i \in 1..Len(file.rows) |-> RowSubmission(file.header, file.rows[i])]]

(* -------------------------- leaderboard store ------------------------- *)
\* The persisted CSV: rows of text cells.  timestamp is the instant the ISO
\* string denotes and notes the characters of the message: neither column is
\* ever numeric, so read_csv and to_csv keep them as they are, except that an
\* empty notes field is NaN in between.
FileRow(r) ==
    [team |-> FormatCell(r.team), submission |-> FormatCell(r.submission),
     auroc |-> FormatCell(r.auroc), auprc |-> FormatCell(r.auprc),
     brier |-> FormatCell(r.brier), n |-> FormatCell(r.n),
     timestamp |-> r.timestamp, status |-> FormatCell(r.status), notes |-> r.notes]

to_csv(df) == [i \in 1..Len(df) |-> FileRow(df[i])]

Column(rows, f) == [i \in 1..Len(rows) |-> rows[i][f]]

read_csv(rows) ==
    LET team == ReadCol(Column(rows, "team"))
        submission == ReadCol(Column(rows, "submission"))
        auroc == ReadCol(Column(rows, "auroc"))
        auprc == ReadCol(Column(rows, "auprc"))
        brier == ReadCol(Column(rows, "brier"))
        n == ReadCol(Column(rows, "n"))
        status == ReadCol(Column(rows, "status"))
    IN [i \in 1..Len(rows) |->
          [team |-> team[i], submission |-> submission[i], auroc |-> auroc[i],
           auprc |-> auprc[i], brier |-> brier[i], n |-> n[i],
           timestamp |-> rows[i].timestamp, status |-> status[i],
           notes |-> rows[i].notes]]

\* df[df["team"] != record["team"]]
RECURSIVE DropTeam(_, _)
DropTeam(df, team) ==
    IF df = <<>> THEN <<>>
    ELSE IF SeriesNe(Head(df).team, team)
         THEN <<Head(df)>> \o DropTeam(Tail(df), team)
         ELSE DropTeam(Tail(df), team)

\* The four pd.to_numeric(..., errors="coerce") assignments.
CoerceColumns(df) ==
    LET auroc == ToNumericCol(Column(df, "auroc"))
        auprc == ToNumericCol(Column(df, "auprc"))
        brier == ToNumericCol(Column(df, "brier"))
        n == ToNumericCol(Column(df, "n"))
    IN [i \in 1..Len(df) |->
          [df[i] EXCEPT !.auroc = auroc[i], !.auprc = auprc[i],
                        !.brier = brier[i], !.n = n[i]]]

\* A sort key with NaN first (na_position = "first").
KeyCmpNaNFirst(x, y, asc) ==
    IF x.t = "nan" /\ y.t = "nan" THEN 0
    ELSE IF x.t = "nan" THEN -1
    ELSE IF y.t = "nan" THEN 1
    ELSE IF x.v = y.v THEN 0
    ELSE IF (x.v < y.v) = asc THEN -1 ELSE 1

\* One sort key: -1 when x goes before y, 1 when after, 0 on a tie.  NaN goes
\* last whatever the direction (na_position = "last").
KeyCmp(x, y, asc) ==
    IF x.t = "nan" /\ y.t = "nan" THEN 0
    ELSE IF x.t = "nan" THEN 1
    ELSE IF y.t = "nan" THEN -1
    ELSE IF x.v = y.v THEN 0
    ELSE IF (x.v < y.v) = asc THEN -1 ELSE 1

\* by=["auroc", "auprc", "brier"], ascending=[False, False, True]
RowCmp(a, b) ==
    LET c1 == KeyCmp(a.auroc, b.auroc, FALSE)
        c2 == KeyCmp(a.auprc, b.auprc, FALSE)
        c3 == KeyCmp(a.brier, b.brier, TRUE)
    IN IF c1 # 0 THEN c1 ELSE IF c2 # 0 THEN c2 ELSE c3

\* DataFrame.sort_values on several keys is a stable lexsort: the index of the
\* sorted frame, as positions of the frame that was sorted.
\* An insertion that puts a row before the rows it ties with.
RECURSIVE InsertFirst(_, _, _)
InsertFirst(df, sorted, i) ==
    IF sorted = <<>> THEN <<i>>
    ELSE IF RowCmp(df[i], df[Head(sorted)]) <= 0 THEN <<i>> \o sorted
    ELSE <<Head(sorted)>> \o InsertFirst(df, Tail(sorted), i)

\* The insertion of the stable sort: after the rows it ties with.
RECURSIVE Insert(_, _, _)
Insert(df, sorted, i) ==
    IF sorted = <<>> THEN <<i>>
    ELSE IF RowCmp(df[i], df[Head(sorted)]) < 0 THEN <<i>> \o sorted
    ELSE <<Head(sorted)>> \o Insert(df, Tail(sorted), i)

RECURSIVE SortIndex(_, _)
SortIndex(df, k) ==
    IF k = 0 THEN <<>> ELSE Insert(df, SortIndex(df, k - 1), k)

sort_values(df) == SortIndex(df, Len(df))

\* upsert_leaderboard(leaderboard_csv, record): the frame before the sort,
\* the index after it and the rows written back.
UpsertFrame(file, record) ==
    LET loaded == IF file.exists THEN read_csv(file.rows) ELSE <<>>
    IN CoerceColumns(Append(DropTeam(loaded, record.team.s), record))

UpsertRows(frame, index) == to_csv([i \in 1..Len(index) |-> frame[index[i]]])

(* ------------------------------- state -------------------------------- *)
VARIABLES
    file,       \* the submissions CSV: header and raw rows
    args,       \* the parsed command line
    world,      \* what the faculty machine holds: the hidden labels, os.environ
    subs,       \* load_submissions' result
    pc,         \* where main() is: load, loop, clone, checkout, install,
                \* execute, score, upsert, done, crashed
    idx,        \* position of `sub` in subs (0 before the loop)
    clock,      \* datetime.now(), in seconds
    record,     \* the record dict of the current submission
    exc,        \* the exception caught for the current submission
    scores,     \* the scorer's result for the current submission
    env,        \* the variables handed to the notebook
    team_dir,   \* working directory of the current submission
    dirs,       \* the directories that exist under the working root
    lb,         \* the leaderboard CSV: whether it exists, and its rows
    frame,      \* upsert_leaderboard's df before the sort
    index,      \* df.index after the sort
    log,        \* the stages attempted so far, in order
    handed      \* the records passed to upsert_leaderboard, in order

vars == <<file, args, world, subs, pc, idx, clock, record, exc, scores, env,
          team_dir, dirs, lb, frame, index, log, handed>>

NoExc == [raised |-> FALSE, kind |-> "", msg |-> <<>>]
NoScores == score_predictions(FALSE, GoodRepo)
\* An environment: the five variables of the notebook and, for all the others,
\* PATH.  EmptyArg is a variable that is not set.
NoEnv ==
    [PYTHON_EXE |-> EmptyArg, TEST_PATH |-> EmptyArg, OUT_PATH |-> EmptyArg,
     TRAIN_PATH |-> EmptyArg, DEV_PATH |-> EmptyArg, PATH |-> EmptyArg]

\* The record dict main() starts every submission with.
NewRecord(sub, ts) ==
    [team |-> PyStr(sub.team), submission |-> PyStr(sub.ref),
     auroc |-> PyStr(""), auprc |-> PyStr(""), brier |-> PyStr(""), n |-> PyStr(""),
     timestamp |-> ts, status |-> PyStr("ERROR"), notes |-> <<>>]

\* A cut that keeps the end of the message.
TruncateLast(msg) ==
    IF Len(msg) <= NotesMax THEN msg
    ELSE SubSeq(msg, Len(msg) - NotesMax + 1, Len(msg))

\* str(e)[:300]
Truncate(msg) == SubSeq(msg, 1, IF Len(msg) < NotesMax THEN Len(msg) ELSE NotesMax)

\* record.update({...}): the four scores, status OK and empty notes.  The dict
\* literal is built first, so a result without one of the keys changes nothing.
UpdateRecord(rec, sc) ==
    IF AllKeys \subseteq sc.keys
    THEN [rec EXCEPT !.auroc = sc.auroc, !.auprc = sc.auprc, !.brier = sc.brier,
                     !.n = sc.n, !.status = PyStr("OK"), !.notes = <<>>]
    ELSE rec

\* team_dir = workdir / f"{sub.team}".replace(" ", "_")
TeamDir(a, sub) == Join(a.workdir, ReplaceSpaces(sub.team))

\* python_exe: the venv's interpreter with --use-venv, else --python.
PythonExe(a, dir) ==
    IF a.use_venv THEN Join(Join(Join(dir, ".venv"), "bin"), "python") ELSE a.python

\* subprocess.run([python_exe, ...], cwd=repo_dir): the child changes to
\* repo_dir before it looks the program up, so a relative path with a directory
\* part no longer leads to it; a bare name is searched on PATH.
Runnable(py) == py.abs \/ Len(py.parts) = 1

\* A choice that ignores the override.
DataPathDefaultFirst(override, dir, name) ==
    Resolve(Join(Join(Join(dir, "data"), "public"), name))

\* `if args.train_path:` picks the resolved override, else the file under the
\* checkout; the same for dev.
DataPath(override, dir, name) ==
    IF override # EmptyArg THEN Resolve(override)
    ELSE Resolve(Join(Join(Join(dir, "data"), "public"), name))

\* env = os.environ.copy() followed by the five assignments.
BuildEnv(a, dir, environ) ==
    [environ EXCEPT
        !.PYTHON_EXE = PythonExe(a, dir),
        !.TEST_PATH = Resolve(a.hidden_test),
        !.OUT_PATH = Resolve(Join(dir, "predictions.csv")),
        !.TRAIN_PATH = DataPath(a.train_path, dir, "train.csv"),
        !.DEV_PATH = DataPath(a.dev_path, dir, "dev.csv")]

\* Assignments that go to os.environ itself (env = os.environ).
EnvironAliased(environ, built) == built

\* os.environ after the assignments to the copy: as it was.
EnvironAfter(environ, built) == environ

Sub == subs[idx]

\* install_requirements(repo_dir, python_exe), lines 63-67: nothing to do
\* without a requirements.txt, else pip run from repo_dir.
InstallOk(repo, a, dir) ==
    repo.reqs = "none" \/ (repo.reqs = "ok" /\ Runnable(PythonExe(a, dir)))

\* execute_notebook, lines 75-88: the extractor, then nbconvert run from
\* repo_dir with env["PYTHON_EXE"].
\* --ExecutePreprocessor.timeout=timeout_s is the time one cell may take:
\* nbconvert stops with an error at the first cell that takes longer.
CellTimeout(repo, a) == \E i \in 1..Len(repo.cells) : repo.cells[i] > a.timeout

EngineOk(repo, a, dir) ==
    repo.run = "ok" /\ ~CellTimeout(repo, a) /\ Runnable(PythonExe(a, dir))

\* The seconds nbconvert runs: cell after cell, up to the first one cut off.
RECURSIVE RunSecs(_, _)
RunSecs(cells, timeout) ==
    IF cells = <<>> THEN 0
    ELSE IF Head(cells) > timeout THEN timeout
    ELSE Head(cells) + RunSecs(Tail(cells), timeout)

EngineSecs(repo, a, dir) ==
    IF Runnable(PythonExe(a, dir)) THEN RunSecs(repo.cells, a.timeout) ELSE 0

\* An entry of the log: the stage of submission idx, whether it succeeded and
\* the seconds it ran (kept for EXECUTE only).
TimedEvent(stage, ok, secs) == [sub |-> idx, stage |-> stage, ok |-> ok, secs |-> secs]

Event(stage, ok) == TimedEvent(stage, ok, 0)

\* A handler that runs the failed stage a second time before it gives up.
RaiseRetry(kind, long) ==
    LET msg == Message(ExcCode[kind], IF long THEN LongLen ELSE ShortLen)
    IN /\ exc' = [raised |-> TRUE, kind |-> kind, msg |-> msg]
       /\ record' = [record EXCEPT !.notes = Truncate(msg)]
       /\ pc' = IF exc.raised THEN "upsert" ELSE pc

\* `except Exception as e`: the message goes to notes and the loop body goes on
\* to upsert_leaderboard.
Raise(kind, long) ==
    LET msg == Message(ExcCode[kind], IF long THEN LongLen ELSE ShortLen)
    IN /\ exc' = [raised |-> TRUE, kind |-> kind, msg |-> msg]
       /\ record' = [record EXCEPT !.notes = Truncate(msg)]
       /\ pc' = "upsert"

(* ------------------------------ actions ------------------------------- *)
\* main(), lines 138-142: load the list, create the working root.
LoadSubmissions ==
    /\ pc = "load"
    /\ LET r == load_submissions(file)
       IN /\ subs' = r.subs
          /\ pc' = IF r.ok THEN "loop" ELSE "crashed"
          /\ dirs' = IF r.ok THEN dirs \cup {args.workdir} ELSE dirs
    /\ UNCHANGED <<file, args, world, idx, clock, record, exc, scores, env,
                   team_dir, lb, frame, index, log, handed>>

\* Lines 144-160: the next submission, its fresh record, and RESET_WORKDIR.
\* shutil.rmtree is outside the try block: when it fails the exception leaves
\* main().
BeginSubmission ==
    /\ pc = "loop"
    /\ idx < Len(subs)
    /\ LET sub == subs[idx + 1]
           dir == TeamDir(args, sub)
       IN /\ idx' = idx + 1
          /\ clock' = clock + 1
          /\ record' = NewRecord(sub, clock + 1)
          /\ team_dir' = dir
          /\ \E removed \in (IF dir \in dirs THEN BOOLEAN ELSE {TRUE}) :
                /\ dirs' = IF dir \in dirs /\ removed
                           THEN {d \in dirs : ~IsPrefix(dir, d)} ELSE dirs
                /\ pc' = IF removed THEN "clone" ELSE "crashed"
                /\ log' = Append(log, [sub |-> idx + 1, stage |-> "RESET_WORKDIR",
                                       ok |-> removed, secs |-> 0])
    /\ exc' = NoExc
    /\ scores' = NoScores
    /\ UNCHANGED <<file, args, world, subs, env, lb, frame, index, handed>>

\* Line 164: git clone.
Clone ==
    /\ pc = "clone"
    /\ log' = Append(log, Event("CLONE", Repo(Sub.repo_url).clone))
    /\ IF Repo(Sub.repo_url).clone
       THEN /\ dirs' = dirs \cup {args.workdir, team_dir}
            /\ pc' = "checkout"
            /\ UNCHANGED <<record, exc>>
       ELSE /\ Raise("CLONE", FALSE)
            /\ UNCHANGED dirs
    /\ UNCHANGED <<file, args, world, subs, idx, clock, scores, env, team_dir,
                   lb, frame, index, handed>>

\* Line 165: git fetch --all --tags, git checkout ref.
Checkout ==
    /\ pc = "checkout"
    /\ log' = Append(log, Event("CHECKOUT", Repo(Sub.repo_url).checkout))
    /\ IF Repo(Sub.repo_url).checkout
       THEN /\ pc' = "install"
            /\ UNCHANGED <<record, exc>>
       ELSE Raise("CHECKOUT", FALSE)
    /\ UNCHANGED <<file, args, world, subs, idx, clock, scores, env, team_dir,
                   dirs, lb, frame, index, handed>>

\* Lines 167-176: the optional venv, then pip install -r requirements.txt when
\* the checkout has one.
InstallDeps ==
    /\ pc = "install"
    /\ log' = Append(log, Event("INSTALL_DEPS", InstallOk(Repo(Sub.repo_url), args, team_dir)))
    /\ IF InstallOk(Repo(Sub.repo_url), args, team_dir)
       THEN /\ pc' = "execute"
            /\ UNCHANGED <<record, exc>>
       ELSE Raise("INSTALL_DEPS", FALSE)
    /\ UNCHANGED <<file, args, world, subs, idx, clock, scores, env, team_dir,
                   dirs, lb, frame, index, handed>>

\* Lines 178-196: the variables of the notebook, then execute_notebook.
ExecuteNotebook ==
    /\ pc = "execute"
    /\ env' = BuildEnv(args, team_dir, world.environ)
    /\ world' = [world EXCEPT !.environ = EnvironAfter(world.environ, env')]
    /\ LET repo == Repo(Sub.repo_url)
           found == Sub.nb_path \in repo.nbFiles
       IN /\ log' = Append(log, TimedEvent("EXECUTE", found /\ EngineOk(repo, args, team_dir),
                                          IF found THEN EngineSecs(repo, args, team_dir)
                                          ELSE 0))
          /\ IF ~found THEN Raise("NOTEBOOK", FALSE)
             ELSE IF ~EngineOk(repo, args, team_dir) THEN Raise("EXECUTE", repo.long)
             ELSE /\ pc' = "score"
                  /\ UNCHANGED <<record, exc>>
    /\ UNCHANGED <<file, args, subs, idx, clock, scores, team_dir, dirs,
                   lb, frame, index, handed>>

\* Lines 198-207: score the predictions and fill the record.
Score ==
    /\ pc = "score"
    /\ LET sc == score_predictions(world.labels_ok, Repo(Sub.repo_url))
       IN /\ log' = Append(log, Event("SCORE", sc.ok /\ AllKeys \subseteq sc.keys))
          /\ IF ~sc.ok
             THEN /\ Raise("SCORE", FALSE)
                  /\ UNCHANGED scores
             ELSE /\ scores' = sc
                  /\ IF AllKeys \subseteq sc.keys
                     THEN /\ record' = UpdateRecord(record, sc)
                          /\ pc' = "upsert"
                          /\ UNCHANGED exc
                     ELSE Raise("KEY", FALSE)
    /\ UNCHANGED <<file, args, world, subs, idx, clock, env, team_dir, dirs, lb,
                   frame, index, handed>>

\* Line 213: upsert_leaderboard(leaderboard_csv, record), lines 102-121.
Upsert ==
    /\ pc = "upsert"
    /\ LET df == UpsertFrame(lb, record)
           ix == sort_values(df)
       IN /\ frame' = df
          /\ index' = ix
          /\ lb' = [exists |-> TRUE, rows |-> UpsertRows(df, ix)]
    /\ handed' = Append(handed, [sub |-> idx, record |-> record])
    /\ log' = Append(log, Event("RECORD", TRUE))
    /\ pc' = "loop"
    /\ UNCHANGED <<file, args, world, subs, idx, clock, record, exc, scores, env,
                   team_dir, dirs>>

\* Lines 215-219: the optional site rebuild (run(..., check=True), outside any
\* try block) and the summary line.
Finish ==
    /\ pc = "loop"
    /\ idx = Len(subs)
    /\ \E built \in (IF args.make_site THEN BOOLEAN ELSE {TRUE}) :
          pc' = IF built THEN "done" ELSE "crashed"
    /\ UNCHANGED <<file, args, world, subs, idx, clock, record, exc, scores, env,
                   team_dir, dirs, lb, frame, index, log, handed>>

Next ==
    \/ LoadSubmissions
    \/ BeginSubmission
    \/ Clone
    \/ Checkout
    \/ InstallDeps
    \/ ExecuteNotebook
    \/ Score
    \/ Upsert
    \/ Finish

(* --------------------------- specifications --------------------------- *)
FullHeader == {"team", "repo_url", "ref", "nb_path"}

\* The command line with its defaults; --timeout is given, in seconds, on the
\* scale of the cells of Repo.
DefaultArgs ==
    [train_path |-> EmptyArg, dev_path |-> EmptyArg,
     workdir |-> Path(FALSE, <<"faculty_workdir">>),
     python |-> Path(TRUE, <<"usr", "bin", "python3">>),
     use_venv |-> FALSE,
     hidden_test |-> Path(FALSE, <<"hidden_test.csv">>),
     timeout |-> 3,
     make_site |-> FALSE]

Rows(teams, urls, refs, nbs) ==
    {[team |-> t, repo_url |-> u, ref |-> r, nb_path |-> b] :
        t \in teams, u \in urls, r \in refs, b \in nbs}

Lists(rows) == UNION {[1..k -> rows] : k \in 0..MaxSubs}

NoLeaderboard == [exists |-> FALSE, rows |-> <<>>]

\* os.environ of the faculty's shell: nothing of the notebook's variables set,
\* or OUT_PATH and PYTHON_EXE exported there.
CleanEnviron == [NoEnv EXCEPT !.PATH = Path(TRUE, <<"usr", "bin">>)]

ExportedEnviron ==
    [CleanEnviron EXCEPT !.OUT_PATH = Path(TRUE, <<"tmp", "predictions.csv">>),
                         !.PYTHON_EXE = Path(TRUE, <<"opt", "python">>)]

World(labels_ok, environ) == [labels_ok |-> labels_ok, environ |-> environ]

Start(f, a, w, old) ==
    /\ file = f
    /\ args = a
    /\ world = w
    /\ subs = <<>>
    /\ pc = "load"
    /\ idx = 0
    /\ clock = 0
    /\ record = NewRecord(Submission("", "", "", DEFAULT_NB), 0)
    /\ exc = NoExc
    /\ scores = NoScores
    /\ env = NoEnv
    /\ team_dir = a.workdir
    /\ dirs = {}
    /\ lb = old
    /\ frame = <<>>
    /\ index = <<>>
    /\ log = <<>>
    /\ handed = <<>>

\* The pipeline: two teams, every way a stage can fail; a plain run, a run
\* with the site rebuild, and a run whose hidden labels do not load.
PipelineRows ==
    Rows({Some("TeamA"), Some("TeamB")},
         {Some("ok-hi"), Some("no-clone"), Some("no-ref"),
          Some("bad-reqs"), Some("no-nb"), Some("nb-fails"), Some("nb-long"),
          Some("bad-preds"), Some("short-scores")},
         {Some("v1")}, {Some("")})

Init ==
    \E rows \in Lists(PipelineRows),
       run \in {<<FALSE, TRUE>>, <<TRUE, TRUE>>, <<FALSE, FALSE>>} :
        Start([header |-> FullHeader, rows |-> rows],
              [DefaultArgs EXCEPT !.make_site = run[1]],
              World(run[2], CleanEnviron), NoLeaderboard)

Spec == Init /\ [][Next]_vars

\* The leaderboard store: the run finds a leaderboard on disk (or none) and
\* merges the results of two teams into it.  The tables on disk hold rows a
\* person or an earlier tool left there: tied rows, a row without auprc, a row
\* whose auroc is not a number, a row without brier for a team of this run.
OldRow(team, auroc, auprc, brier) ==
    [team |-> team, submission |-> "v0", auroc |-> auroc, auprc |-> auprc,
     brier |-> brier, n |-> "5", timestamp |-> 0, status |-> "OK", notes |-> <<>>]

ExistingTables ==
    {<<OldRow("TeamC", "1.0", "1.0", "0.0"), OldRow("TeamD", "1.0", "1.0", "0.0")>>,
     <<OldRow("TeamC", "1.0", "", "0.0")>>,
     <<OldRow("TeamC", "abc", "1.0", "0.0")>>,
     <<OldRow("TeamA", "1.0", "0.0", "")>>,
     <<OldRow("TeamC", "0.0", "0.0", "1.0"), OldRow("TeamD", "", "", "")>>}

RankRows ==
    Rows({Some("TeamA"), Some("TeamB")},
         {Some("ok-hi"), Some("ok-tie"), Some("ok-mid"), Some("ok-lo"), Some("no-clone")},
         {Some("v1")}, {Some("")})

InitRank ==
    \E rows \in Lists(RankRows),
       old \in {NoLeaderboard} \cup {[exists |-> TRUE, rows |-> t] : t \in ExistingTables} :
        Start([header |-> FullHeader, rows |-> rows], DefaultArgs,
              World(TRUE, CleanEnviron), old)

SpecRank == InitRank /\ [][Next]_vars

\* Team names and refs as the CSV round trip sees them: plain names, integer
\* literals (canonical or not) and an NA marker.
NameRows ==
    Rows({Some("TeamA"), Some("7"), Some("007"), Some("NA")},
         {Some("ok-hi"), Some("no-clone")},
         {Some("v1"), Some("007")}, {Some("")})

InitNames ==
    \E rows \in Lists(NameRows) :
        Start([header |-> FullHeader, rows |-> rows], DefaultArgs,
              World(TRUE, CleanEnviron), NoLeaderboard)

SpecNames == InitNames /\ [][Next]_vars

\* The command line: overrides given or not, relative or absolute, the working
\* root relative or absolute, the shared interpreter or a venv per team.
EnvArgs ==
    {[DefaultArgs EXCEPT !.train_path = tr, !.dev_path = dv, !.workdir = wd,
                         !.python = py, !.use_venv = venv] :
        tr \in {EmptyArg, Path(FALSE, <<"shared", "train.csv">>),
                Path(TRUE, <<"srv", "train.csv">>)},
        dv \in {EmptyArg, Path(FALSE, <<"shared", "dev.csv">>)},
        wd \in {Path(FALSE, <<"faculty_workdir">>), Path(TRUE, <<"srv", "work">>)},
        py \in {Path(TRUE, <<"usr", "bin", "python3">>), Path(FALSE, <<"python3">>)},
        venv \in BOOLEAN}

EnvRows ==
    Rows({Some("TeamA"), Some("Team A")}, {Some("ok-hi"), Some("ok-lo"), Some("no-nb")},
         {Some("v1")}, {Some("")})

InitEnv ==
    \E rows \in Lists(EnvRows), a \in EnvArgs, environ \in {CleanEnviron, ExportedEnviron} :
        Start([header |-> FullHeader, rows |-> rows], a, World(TRUE, environ),
              NoLeaderboard)

SpecEnv == InitEnv /\ [][Next]_vars

\* Team names with a space and with an underscore, and what is left on disk
\* between their submissions.
DirRows ==
    Rows({Some("TeamA"), Some("Team A"), Some("Team_A")},
         {Some("ok-hi"), Some("no-clone")}, {Some("v1")}, {Some("")})

InitDirs ==
    \E rows \in Lists(DirRows) :
        Start([header |-> FullHeader, rows |-> rows], DefaultArgs,
              World(TRUE, CleanEnviron), NoLeaderboard)

SpecDirs == InitDirs /\ [][Next]_vars

\* Notebooks by the time they take: quick, failing, slow cell after cell, and
\* with a cell that does not come to an end within the timeout.
TimeRows ==
    Rows({Some("TeamA"), Some("TeamB")},
         {Some("ok-hi"), Some("nb-fails"), Some("nb-slow"), Some("nb-hangs")},
         {Some("v1")}, {Some("")})

InitTime ==
    \E rows \in Lists(TimeRows) :
        Start([header |-> FullHeader, rows |-> rows], DefaultArgs,
              World(TRUE, CleanEnviron), NoLeaderboard)

SpecTime == InitTime /\ [][Next]_vars

\* The submissions CSV: padded and blank cells, short rows, missing columns.
LoadRows ==
    Rows({Some("TeamA"), Some(" TeamB "), Some(" "), None},
         {Some("ok-custom")},
         {Some("v1"), Some(" ")},
         {Some(" "), Some("nb/custom.ipynb"), None})

InitLoad ==
    \E rows \in Lists(LoadRows),
       header \in {FullHeader, FullHeader \ {"nb_path"}, FullHeader \ {"ref"}} :
        Start([header |-> header, rows |-> rows], DefaultArgs, World(TRUE, CleanEnviron),
              NoLeaderboard)

SpecLoad == InitLoad /\ [][Next]_vars

(* ------------------------- reading the state -------------------------- *)
\* A metric field of the persisted table: a number, or missing (empty or not
\* a number).
HasNumber(text) == text \in DOMAIN IntLit \cup DOMAIN FloatLit
NumberIn(text) == IF text \in DOMAIN IntLit THEN IntLit[text] ELSE FloatLit[text]

\* The persisted field says what the record's value says.
SameMetric(text, x) ==
    IF x.t \in {"int", "float"} THEN HasNumber(text) /\ NumberIn(text) = x.v
    ELSE ~HasNumber(text)

RowHoldsRecord(row, rec) ==
    /\ row.team = rec.team.s
    /\ row.submission = rec.submission.s
    /\ SameMetric(row.auroc, rec.auroc)
    /\ SameMetric(row.auprc, rec.auprc)
    /\ SameMetric(row.brier, rec.brier)
    /\ SameMetric(row.n, rec.n)
    /\ row.timestamp = rec.timestamp
    /\ row.status = rec.status.s
    /\ row.notes = rec.notes

LastHanded == handed[Len(handed)].record

RowsOfTeam(team) == {i \in 1..Len(lb.rows) : lb.rows[i].team = team}

EventsOf(k) == {i \in 1..Len(log) : log[i].sub = k}

HandedFor(k) == {i \in 1..Len(handed) : handed[i].sub = k}

(* ------------------------------- claims ------------------------------- *)
\* C1: after any sequence of upsert_leaderboard calls the persisted table holds
\* exactly one row per team, and the row of the latest call's team equals the
\* record passed in that call.
C1_OneRowPerTeamLatestWins ==
    handed # <<>> =>
        /\ \A i, j \in 1..Len(lb.rows) : lb.rows[i].team = lb.rows[j].team => i = j
        /\ \E i \in 1..Len(lb.rows) : RowHoldsRecord(lb.rows[i], LastHanded)

\* C2: a failure of a stage (RESET_WORKDIR, CLONE, CHECKOUT, INSTALL_DEPS,
\* EXECUTE, SCORE) never aborts the batch: main() is never left right after a
\* failed stage, and once the loop is back at its head every submission begun
\* so far has had exactly one record upserted.
C2_StageFailureNeverAborts ==
    /\ pc = "crashed" /\ log # <<>> => log[Len(log)].ok
    /\ pc \in {"loop", "done"} => \A k \in 1..idx : Cardinality(HandedFor(k)) = 1

\* The two shapes of a record, and the stages of submission k that succeeded.
MetricsOf(r) == {r.auroc, r.auprc, r.brier, r.n}

ShapeOK(r) == r.status = PyStr("OK") /\ \A m \in MetricsOf(r) : m.t # "str"

ShapeError(r) ==
    /\ r.status = PyStr("ERROR")
    /\ MetricsOf(r) = {PyStr("")}
    /\ Len(r.notes) <= NotesMax

StagesSucceeded(k) ==
    \A st \in {"RESET_WORKDIR", "CLONE", "CHECKOUT", "INSTALL_DEPS", "EXECUTE", "SCORE"} :
        \E i \in EventsOf(k) : log[i].stage = st /\ log[i].ok

\* C3: every record handed to the leaderboard is status=OK with all four
\* metrics from the scorer's result, or status=ERROR with all four metrics
\* blank and notes the first NotesMax characters of the failure message; OK is
\* set only when every stage through SCORE succeeded.
C3_RecordShape ==
    /\ \A i \in 1..Len(handed) : ShapeOK(handed[i].record) \/ ShapeError(handed[i].record)
    /\ pc = "upsert" =>
          /\ ShapeOK(record) \/ ShapeError(record)
          /\ ShapeOK(record) =>
                /\ ~exc.raised
                /\ scores.ok
                /\ record.auroc = scores.auroc /\ record.auprc = scores.auprc
                /\ record.brier = scores.brier /\ record.n = scores.n
                /\ StagesSucceeded(idx)
          /\ ShapeError(record) =>
                /\ exc.raised
                /\ Len(record.notes) =
                      (IF Len(exc.msg) < NotesMax THEN Len(exc.msg) ELSE NotesMax)
                /\ \A i \in 1..Len(record.notes) : record.notes[i] = exc.msg[i]

\* A failure message longer than NotesMax, after an OK record was handed over.
C3_Witness ==
    /\ pc = "upsert"
    /\ exc.raised
    /\ Len(exc.msg) > NotesMax
    /\ \E i \in 1..Len(handed) : ShapeOK(handed[i].record)

\* Reading the sort keys of persisted rows.
FullyNumeric(r) == HasNumber(r.auroc) /\ HasNumber(r.auprc) /\ HasNumber(r.brier)

SameKey(t1, t2) ==
    IF HasNumber(t1) THEN HasNumber(t2) /\ NumberIn(t1) = NumberIn(t2)
    ELSE ~HasNumber(t2)

SameKeys(a, b) ==
    SameKey(a.auroc, b.auroc) /\ SameKey(a.auprc, b.auprc) /\ SameKey(a.brier, b.brier)

RanksNoLower(a, b) ==
    \/ NumberIn(a.auroc) > NumberIn(b.auroc)
    \/ /\ NumberIn(a.auroc) = NumberIn(b.auroc)
       /\ \/ NumberIn(a.auprc) > NumberIn(b.auprc)
          \/ /\ NumberIn(a.auprc) = NumberIn(b.auprc)
             /\ NumberIn(a.brier) <= NumberIn(b.brier)

\* C4: after every upsert the persisted rows are in lexicographic order of
\* auroc descending, auprc descending, brier ascending, and rows equal on all
\* three keys keep the order of the loaded table, the new record last.
C4_RankedAndStable ==
    handed # <<>> =>
        /\ Len(index) = Len(frame) /\ Len(lb.rows) = Len(frame)
        /\ {index[i] : i \in 1..Len(index)} = 1..Len(frame)
        /\ \A i \in 1..Len(index) : lb.rows[i] = FileRow(frame[index[i]])
        /\ frame[Len(frame)].team = LastHanded.team
        /\ \A i, j \in 1..Len(lb.rows) :
              i < j =>
                /\ FullyNumeric(lb.rows[i]) /\ FullyNumeric(lb.rows[j])
                      => RanksNoLower(lb.rows[i], lb.rows[j])
                /\ SameKeys(lb.rows[i], lb.rows[j]) => index[i] < index[j]

\* Three rows tied on all keys, the new record last.
C4_Witness ==
    /\ handed # <<>>
    /\ Len(lb.rows) = 3
    /\ FullyNumeric(lb.rows[1])
    /\ SameKeys(lb.rows[1], lb.rows[2]) /\ SameKeys(lb.rows[2], lb.rows[3])
    /\ lb.rows[3].team = LastHanded.team.s

\* C5, as stated: after every upsert every record with a missing or
\* non-numeric auroc, auprc or brier comes after all records whose three
\* metrics are numbers.
C5_AnyMissingAfterAllValid ==
    handed # <<>> =>
        \A i, j \in 1..Len(lb.rows) :
            ~FullyNumeric(lb.rows[i]) /\ FullyNumeric(lb.rows[j]) => j < i

\* Order of missing values key by key, and what an upsert writes for them.
MetricFields == {"auroc", "auprc", "brier", "n"}

MissingOrder ==
    handed # <<>> =>
        \A i, j \in 1..Len(lb.rows) :
            i < j =>
              LET a == lb.rows[i]
                  b == lb.rows[j]
              IN /\ ~HasNumber(a.auroc) => ~HasNumber(b.auroc)
                 /\ SameKey(a.auroc, b.auroc) /\ ~HasNumber(a.auprc)
                       => ~HasNumber(b.auprc)
                 /\ SameKey(a.auroc, b.auroc) /\ SameKey(a.auprc, b.auprc)
                    /\ ~HasNumber(a.brier) => ~HasNumber(b.brier)

WrittenAsMissing ==
    pc = "upsert" =>
        /\ \A i \in 1..Len(lb.rows) :
              lb.rows[i].team # record.team.s =>
                \E j \in 1..Len(lb'.rows) :
                    /\ lb'.rows[j].team = lb.rows[i].team
                    /\ \A f \in MetricFields :
                          IF HasNumber(lb.rows[i][f])
                          THEN SameKey(lb'.rows[j][f], lb.rows[i][f])
                          ELSE lb'.rows[j][f] = ""
        /\ \E j \in 1..Len(lb'.rows) :
              /\ lb'.rows[j].team = record.team.s
              /\ \A f \in MetricFields :
                    IF IsNumber(record[f])
                    THEN HasNumber(lb'.rows[j][f]) /\ NumberIn(lb'.rows[j][f]) = record[f].v
                    ELSE lb'.rows[j][f] = ""

\* C5, amended: missing values go last key by key.  A record without auroc
\* comes after every record with one, whatever its other fields; among records
\* equal on auroc one without auprc comes after those with one; among records
\* equal on auroc and auprc one without brier comes after those with one.  A
\* blank or unparsable value is written back as missing, never as zero.
C5_MissingLastPerKey == []MissingOrder /\ [][WrittenAsMissing]_vars

\* A row without auroc but with auprc, below a row whose metrics are all
\* numbers and whose auroc is zero.
C5_Witness ==
    /\ handed # <<>>
    /\ \E i, j \in 1..Len(lb.rows) :
          /\ i < j
          /\ FullyNumeric(lb.rows[i]) /\ NumberIn(lb.rows[i].auroc) = 0
          /\ ~HasNumber(lb.rows[j].auroc) /\ HasNumber(lb.rows[j].auprc)

DistinctTeams == \A i, j \in 1..Len(subs) : subs[i].team = subs[j].team => i = j

\* C6: a run over N submissions with pairwise distinct team names leaves
\* exactly N rows, one per submitted team.
C6_OneRowPerSubmittedTeam ==
    pc = "done" /\ DistinctTeams =>
        /\ Len(lb.rows) = Len(subs)
        /\ \A k \in 1..Len(subs) : Cardinality(RowsOfTeam(subs[k].team)) = 1

SameRow(r1, r2) ==
    /\ r1.team = r2.team
    /\ r1.submission = r2.submission
    /\ SameKeys(r1, r2)
    /\ SameKey(r1.n, r2.n)
    /\ r1.timestamp = r2.timestamp
    /\ r1.status = r2.status
    /\ r1.notes = r2.notes

\* C7: the upsert of a failed submission changes no field of any other team's
\* row: each such row is in the table afterwards with the same team, ref,
\* metrics, timestamp, status and notes.
C7_OtherTeamsRowsUntouched ==
    [][pc = "upsert" /\ exc.raised =>
          \A i \in 1..Len(lb.rows) :
              lb.rows[i].team # record.team.s =>
                  \E j \in 1..Len(lb'.rows) : SameRow(lb'.rows[j], lb.rows[i])]_vars

ExecEvents == {i \in 1..Len(log) : log[i].stage = "EXECUTE"}

LastExecuted == subs[log[CHOOSE i \in ExecEvents : \A j \in ExecEvents : j <= i].sub]

CheckoutFile(sub, name) ==
    Resolve(Path(args.workdir.abs,
                 args.workdir.parts \o <<ReplaceSpaces(sub.team), "data", "public", name>>))

\* C8: TRAIN_PATH is the resolved --train-path whenever one is given and the
\* file under the team's own checkout otherwise, DEV_PATH likewise, for every
\* submission anew.
C8_OverrideWins ==
    ExecEvents # {} =>
        /\ env.TRAIN_PATH = IF args.train_path # EmptyArg THEN Resolve(args.train_path)
                            ELSE CheckoutFile(LastExecuted, "train.csv")
        /\ env.DEV_PATH = IF args.dev_path # EmptyArg THEN Resolve(args.dev_path)
                          ELSE CheckoutFile(LastExecuted, "dev.csv")

\* The second of two teams is about to be scored, with --train-path given and
\* --dev-path not.
C8_Witness ==
    /\ pc = "score"
    /\ idx = 2
    /\ subs[1].team # subs[2].team
    /\ args.train_path # EmptyArg
    /\ args.dev_path = EmptyArg

BlankCell(c) == ~c.some \/ Strip(c.s) = ""

Malformed ==
    \/ {"team", "repo_url", "ref"} \ file.header # {}
    \/ \E i \in 1..Len(file.rows) :
          BlankCell(file.rows[i].team) \/ BlankCell(file.rows[i].repo_url)
          \/ BlankCell(file.rows[i].ref)

\* C9: load_submissions fails for every row whose team, repo_url or ref is
\* absent or blank after trimming, so no Submission has an empty team,
\* repo_url or ref.
C9_BlankRowsRejected ==
    /\ pc # "load" /\ Malformed => pc = "crashed" /\ idx = 0
    /\ \A i \in 1..Len(subs) :
          subs[i].team # "" /\ subs[i].repo_url # "" /\ subs[i].ref # ""

\* C10: a malformed submission list, or hidden labels that cannot be loaded,
\* abort the run before the loop: no clone is attempted and no leaderboard row
\* is written.
C10_FatalBeforeLoop ==
    Malformed \/ ~world.labels_ok =>
        /\ \A i \in 1..Len(log) : log[i].stage # "CLONE"
        /\ handed = <<>>
        /\ ~lb.exists

SameSubmission(i, j) == subs[handed[i].sub] = subs[handed[j].sub]

\* C11: when a valid submission is run again with the same outcomes, the table
\* afterwards holds exactly one row for its team, and that row is the row of
\* the first run but for the timestamp.
C11_RerunIdempotent ==
    \A i \in 1..Len(handed) :
        LET j == Len(handed)
        IN i < j /\ SameSubmission(i, j) /\ handed[i].record.status = PyStr("OK") =>
              /\ Cardinality(RowsOfTeam(handed[j].record.team.s)) = 1
              /\ \A r \in RowsOfTeam(handed[j].record.team.s) :
                    RowHoldsRecord(lb.rows[r],
                        [handed[i].record EXCEPT !.timestamp = handed[j].record.timestamp])

\* The collaborators let the submission through every stage.
Succeeds(sub) ==
    LET repo == Repo(sub.repo_url)
    IN /\ repo.clone /\ repo.checkout /\ repo.reqs # "fail"
       /\ sub.nb_path \in repo.nbFiles /\ repo.run = "ok"
       /\ world.labels_ok /\ repo.preds = "ok" /\ AllKeys \subseteq repo.keys

LastOfTeam(k) == \A m \in 1..Len(subs) : subs[m].team = subs[k].team => m <= k

IsOkRowOf(row, rec, repo) ==
    /\ row.timestamp = rec.timestamp
    /\ row.status = "OK"
    /\ HasNumber(row.auroc) /\ NumberIn(row.auroc) = repo.auroc
    /\ HasNumber(row.auprc) /\ NumberIn(row.auprc) = repo.auprc
    /\ HasNumber(row.brier) /\ NumberIn(row.brier) = repo.brier
    /\ HasNumber(row.n) /\ NumberIn(row.n) = repo.n

IsCloneErrorRowOf(row, rec) ==
    /\ row.timestamp = rec.timestamp
    /\ row.status = "ERROR"
    /\ row.auroc = "" /\ row.auprc = "" /\ row.brier = "" /\ row.n = ""
    /\ row.notes = Message(ExcCode["CLONE"], ShortLen)

\* C12: once every submission of a batch is recorded, a submission that
\* clones, executes and scores and a submission of another team whose clone
\* fails (each the last of its team in the batch) both have their row: the
\* first with status OK and the scorer's metrics, the second with status ERROR,
\* the four metrics empty and the clone failure message as notes, and the
\* ERROR row is below the OK row.
C12_OkAboveCloneError ==
    Len(handed) = Len(subs) =>
        \A a, b \in 1..Len(handed) :
            /\ Succeeds(subs[handed[a].sub]) /\ ~Repo(subs[handed[b].sub].repo_url).clone
            /\ subs[handed[a].sub].team # subs[handed[b].sub].team
            /\ LastOfTeam(handed[a].sub) /\ LastOfTeam(handed[b].sub)
            => \E i, j \in 1..Len(lb.rows) :
                  /\ i < j
                  /\ IsOkRowOf(lb.rows[i], handed[a].record, Repo(subs[handed[a].sub].repo_url))
                  /\ IsCloneErrorRowOf(lb.rows[j], handed[b].record)

\* The clone failure was recorded first and the successful submission second,
\* and the run is over.
C12_Witness ==
    /\ pc = "done"
    /\ Len(handed) = 2
    /\ ~Repo(subs[1].repo_url).clone
    /\ Succeeds(subs[2])
    /\ subs[1].team # subs[2].team
    /\ lb.rows[1].status = "OK"

\* C13: once load_submissions has returned the list, main() is never left by
\* an exception: whatever the submissions and the site rebuild do, the run goes
\* on to the summary line.
C13_AlwaysReachesSummary ==
    pc # "load" /\ load_submissions(file).ok => pc # "crashed"

EnvNames == {"PYTHON_EXE", "TEST_PATH", "OUT_PATH", "TRAIN_PATH", "DEV_PATH"}

\* C14: the five variables handed to the notebook are absolute paths, and
\* OUT_PATH is predictions.csv in the team's working directory.
C14_InjectedPathsAbsolute ==
    ExecEvents # {} =>
        /\ \A v \in EnvNames : env[v].abs
        /\ env.OUT_PATH = Resolve(Join(TeamDir(args, LastExecuted), "predictions.csv"))

StageNo ==
    ("RESET_WORKDIR" :> 1) @@ ("CLONE" :> 2) @@ ("CHECKOUT" :> 3)
    @@ ("INSTALL_DEPS" :> 4) @@ ("EXECUTE" :> 5) @@ ("SCORE" :> 6) @@ ("RECORD" :> 7)

NotebookMissing(k) == subs[k].nb_path \notin Repo(subs[k].repo_url).nbFiles

\* C15: the stages of a submission are attempted in the order RESET_WORKDIR,
\* CLONE, CHECKOUT, INSTALL_DEPS, EXECUTE, SCORE, RECORD, each at most once and
\* none before the one ahead of it has succeeded; after a failed stage only
\* RECORD follows; a missing notebook fails EXECUTE before the extractor and
\* nbconvert are run and is never scored.
C15_StagesInOrderOnce ==
    /\ \A i, j \in 1..Len(log) :
          i < j /\ log[i].sub = log[j].sub =>
             /\ StageNo[log[i].stage] < StageNo[log[j].stage]
             /\ ~log[i].ok => log[j].stage = "RECORD"
    /\ \A j \in 1..Len(log) :
          /\ log[j].stage # "RESET_WORKDIR" =>
                \E i \in 1..(j - 1) :
                    /\ log[i].sub = log[j].sub
                    /\ log[i].stage = "RESET_WORKDIR" /\ log[i].ok
          /\ log[j].stage \notin {"RESET_WORKDIR", "RECORD"} =>
                \E i \in 1..(j - 1) :
                    /\ log[i].sub = log[j].sub
                    /\ StageNo[log[i].stage] = StageNo[log[j].stage] - 1
                    /\ log[i].ok
          /\ log[j].stage = "EXECUTE" /\ NotebookMissing(log[j].sub) => ~log[j].ok
    /\ pc = "upsert" /\ log[Len(log)].stage = "EXECUTE" /\ NotebookMissing(idx) =>
          exc.kind = "NOTEBOOK"

\* Two submissions recorded: the clone of the first failed, the second has no
\* notebook.
C15_Witness ==
    /\ pc = "loop"
    /\ Len(handed) = 2
    /\ ~Repo(subs[1].repo_url).clone
    /\ Repo(subs[2].repo_url).clone /\ NotebookMissing(2)
    /\ \E i \in 1..Len(log) : log[i].sub = 2 /\ log[i].stage = "EXECUTE" /\ ~log[i].ok

\* What a step removes from or adds to the disk.
Touched == (dirs \ dirs') \cup (dirs' \ dirs)

OthersUntouched ==
    idx' > 0 =>
        \A k \in 1..Len(subs') :
            subs'[k].team # subs'[idx'].team =>
                \A d \in Touched : ~IsPrefix(TeamDir(args, subs'[k]), d)

CloneStartsEmpty == pc = "clone" => \A d \in dirs : ~IsPrefix(team_dir, d)

\* C16: the working directories of different teams are apart: RESET_WORKDIR
\* and CLONE of one team remove nothing from and add nothing to the directory
\* of a team with another name, and a team's directory does not exist when its
\* CLONE starts.
C16_TeamDirsIsolated == []CloneStartsEmpty /\ [][OthersUntouched]_vars

TeamsRecorded == {subs[handed[k].sub].team : k \in 1..Len(handed)}

\* C17: submissions are processed one at a time in input order with one full
\* rewrite of the table each; whenever main() is between two submissions
\* (stopped there by a crash included) the persisted table holds exactly one
\* row for each team processed so far, in ranking order.
C17_ConsistentBetweenSubmissions ==
    /\ \A i, j \in 1..Len(log) : i < j => log[i].sub <= log[j].sub
    /\ \A k \in 1..Len(handed) : handed[k].sub = k
    /\ pc \in {"loop", "done", "crashed"} =>
          /\ Len(lb.rows) = Cardinality(TeamsRecorded)
          /\ \A t \in TeamsRecorded : Cardinality(RowsOfTeam(t)) = 1
          /\ \A i, j \in 1..Len(lb.rows) :
                i < j /\ FullyNumeric(lb.rows[j]) =>
                    FullyNumeric(lb.rows[i]) /\ RanksNoLower(lb.rows[i], lb.rows[j])

TimedOut(k) == CellTimeout(Repo(subs[k].repo_url), args)

ExitedNonZero(k) == Repo(subs[k].repo_url).run # "ok" /\ ~TimedOut(k)

\* C18: no execution of a notebook runs longer than --timeout; one that is cut
\* off is recorded as a failed EXECUTE stage, with an ERROR record whose notes
\* differ from those of a notebook that exited non-zero, and the batch moves
\* on.
C18_ExecuteBoundedByTimeout ==
    /\ \A i \in 1..Len(log) : log[i].stage = "EXECUTE" => log[i].secs <= args.timeout
    /\ \A a \in 1..Len(handed) :
          TimedOut(handed[a].sub) => handed[a].record.status = PyStr("ERROR")
    /\ \A a, b \in 1..Len(handed) :
          /\ handed[a].record.status = PyStr("ERROR")
          /\ handed[b].record.status = PyStr("ERROR")
          /\ TimedOut(handed[a].sub) /\ ExitedNonZero(handed[b].sub)
          => handed[a].record.notes # handed[b].record.notes

NbAbsentOrBlank(row) ==
    "nb_path" \notin file.header \/ ~row.nb_path.some \/ Strip(row.nb_path.s) = ""

\* C19: for a list whose rows all have team, repo_url and ref, load_submissions
\* returns one Submission per row in input order, with the default notebook
\* path for every row whose nb_path is absent (no column, or no value in the
\* row) or blank, and the trimmed nb_path otherwise; it never fails.
C19_NbPathDefaults ==
    pc # "load" /\ ~Malformed =>
        /\ Len(subs) = Len(file.rows)
        /\ \A i \in 1..Len(subs) :
              /\ subs[i].team = Strip(file.rows[i].team.s)
              /\ subs[i].repo_url = Strip(file.rows[i].repo_url.s)
              /\ subs[i].ref = Strip(file.rows[i].ref.s)
              /\ subs[i].nb_path = IF NbAbsentOrBlank(file.rows[i]) THEN DEFAULT_NB
                                   ELSE Strip(file.rows[i].nb_path.s)

OwnDir(sub) == Resolve(TeamDir(args, sub))

\* C20: building the variables of a submission leaves os.environ as it was, and
\* the set handed to a notebook is os.environ with the five variables of this
\* submission: OUT_PATH and, with --use-venv, PYTHON_EXE lie in its own working
\* directory, never a value exported in the shell or left by the submission
\* before.
C20_EnvPerSubmission ==
    /\ [][world'.environ = world.environ]_vars
    /\ [](ExecEvents # {} =>
            /\ env.PATH = world.environ.PATH
            /\ env.OUT_PATH = Join(OwnDir(LastExecuted), "predictions.csv")
            /\ env.PYTHON_EXE = IF args.use_venv
                                THEN Join(Join(Join(TeamDir(args, LastExecuted), ".venv"),
                                               "bin"), "python")
                                ELSE args.python
            /\ env.TEST_PATH = Resolve(args.hidden_test)
            /\ \A k \in 1..Len(subs) :
                  OwnDir(subs[k]) # OwnDir(LastExecuted) =>
                      /\ ~IsPrefix(OwnDir(subs[k]), env.OUT_PATH)
                      /\ ~IsPrefix(OwnDir(subs[k]), Resolve(env.PYTHON_EXE)))

\* The notebook of a second team has run in its own venv, after the first
\* team's, in a shell that exports OUT_PATH and PYTHON_EXE.
C20_Witness ==
    /\ pc = "score"
    /\ idx = 2
    /\ Cardinality(ExecEvents) = 2
    /\ OwnDir(subs[1]) # OwnDir(subs[2])
    /\ args.use_venv
    /\ world.environ = ExportedEnviron

====
